---- MODULE Spec2Model ----
(***************************************************************************)
(* A model of ergo's Metaculus question layer (src/ergo/metaculus.py) and  *)
(* of its Foretold Cdf sampling (src/ergo/foretold.py).                    *)
(*                                                                         *)
(* In the submission and sampling parts real numbers are fixed point: a    *)
(* value v of the program is the integer v * Unit, so 0.01 is 100 and 3 is *)
(* 30000.  The scale transforms and the Cdfs use exact rationals.          *)
(***************************************************************************)
EXTENDS Integers, Sequences, FiniteSets, TLC

Unit == 10 ^ 4

Min(a, b) == IF a <= b THEN a ELSE b
Max(a, b) == IF a >= b THEN a ELSE b
Abs(a) == IF a >= 0 THEN a ELSE -a

\* the value of a record-valued variable that has not been set
None == [none |-> TRUE]

----------------------------------------------------------------------------
(* Bounds of the model.                                                    *)

\* fitted locs range over -MaxLocK/2 .. MaxLocK/2 in steps of 0.5
MaxLocK == 10
\* fitted scales range over 0.005 * 2^k, k in 0..MaxScaleK (0.005 .. 20.48)
MaxScaleK == 12

----------------------------------------------------------------------------
(* scipy.stats.logistic(loc, scale).cdf(x) = 1 / (1 + exp(-(x - loc)/scale)) *)
(* tabulated at z = k/4, k = 0..40, rounded to 1/Unit; sigma(-z) = 1 -     *)
(* sigma(z).  Beyond |z| = 10 the value is 0 or 1 at this resolution.  z   *)
(* is rounded down to the grid, which keeps the cdf monotone in x.         *)

SigmoidTable ==
    << 5000, 5622, 6225, 6792, 7311, 7773, 8176, 8520, 8808, 9047,
       9241, 9399, 9526, 9627, 9707, 9770, 9820, 9859, 9890, 9914,
       9933, 9948, 9959, 9968, 9975, 9981, 9985, 9988, 9991, 9993,
       9994, 9996, 9997, 9997, 9998, 9998, 9999, 9999, 9999, 9999, 10000 >>

Sigmoid(zq) ==
    IF zq >= 40 THEN Unit
    ELSE IF zq <= -40 THEN 0
    ELSE IF zq >= 0 THEN SigmoidTable[zq + 1]
    ELSE Unit - SigmoidTable[(-zq) + 1]

\* distribution.cdf(x) for distribution = stats.logistic(loc, scale), scale > 0
LogisticCdf(loc, scale, x) == Sigmoid(((x - loc) * 4) \div scale)

----------------------------------------------------------------------------
(* ContinuousQuestion.get_submission_params                                *)

max_loc == 3 * Unit
min_scale == Unit \div 100
max_scale == 10 * Unit
min_open_low == Unit \div 100
max_open_high == (99 * Unit) \div 100
\* the 0.01 of "min_open_high = low + 0.01"
min_high_gap == Unit \div 100

low_open(possibilities) == possibilities.low = "tail"
high_open(possibilities) == possibilities.high = "tail"

clipped_loc_unclipped(logistic_params) == logistic_params.loc
clipped_loc(logistic_params) == Min(logistic_params.loc, max_loc)

clipped_scale(logistic_params) ==
    Min(Max(logistic_params.scale, min_scale), max_scale)

\* distribution = stats.logistic(logistic_params.loc, logistic_params.scale):
\* the distribution is built from the parameters as passed in
distribution_cdf(logistic_params, x) ==
    LogisticCdf(logistic_params.loc, logistic_params.scale, x)

submission_low_always_open(possibilities, logistic_params) ==
    Max(distribution_cdf(logistic_params, 0), min_open_low)
submission_low(possibilities, logistic_params) ==
    IF low_open(possibilities)
    THEN Max(distribution_cdf(logistic_params, 0), min_open_low)
    ELSE 0

min_open_high_no_gap(low) == low
min_open_high(low) == low + min_high_gap

submission_high(possibilities, logistic_params, low) ==
    IF high_open(possibilities)
    THEN Max(Min(distribution_cdf(logistic_params, Unit), max_open_high),
             min_open_high(low))
    ELSE Unit

get_submission_params(possibilities, logistic_params) ==
    LET low == submission_low(possibilities, logistic_params)
        high == submission_high(possibilities, logistic_params, low)
    IN  [loc |-> clipped_loc(logistic_params),
         scale |-> clipped_scale(logistic_params),
         low |-> low,
         high |-> high]

----------------------------------------------------------------------------
(* Inputs                                                                  *)

RECURSIVE Pow2(_)
Pow2(k) == IF k = 0 THEN 1 ELSE 2 * Pow2(k - 1)

Locs == {(Unit \div 2) * k : k \in -MaxLocK .. MaxLocK}
Scales == {(Unit \div 200) * Pow2(k) : k \in 0 .. MaxScaleK}
LogisticParams == [loc : Locs, scale : Scales]
Possibilities == [low : {"tail", "min"}, high : {"tail", "max"}]

----------------------------------------------------------------------------
(* State                                                                   *)

VARIABLES
    p_possibilities,    \* possibilities of the question get_submission_params runs on
    p_logistic_params,  \* its argument
    p_submission,       \* its return value, None before the call
    data,               \* self.data of every question object
    lru_cache,          \* the cache functools.lru_cache keeps for community_dist_in_range
    last_call,          \* the last call made on a question: what it did and returned
    transform,          \* a question's scale transform applied to true-scale values
    cdf,                \* a Foretold Cdf being built or sampled
    made                \* a call of Metaculus.make_question_from_data

paramVars == <<p_possibilities, p_logistic_params, p_submission>>
questionVars == <<data, lru_cache, last_call>>
pureVars == <<transform, cdf, made>>
vars == <<paramVars, questionVars, pureVars>>

----------------------------------------------------------------------------
(* Question objects and the data the server returns for them               *)

\* one question object of each continuous class
Questions == {"linear_q", "log_q", "date_q"}

question_class(self) ==
    CASE self = "linear_q" -> "LinearQuestion"
      [] self = "log_q" -> "LogQuestion"
      [] self = "date_q" -> "LinearDateQuestion"

\* prediction_histogram is a list of [x, y, density] triples; the community
\* percentiles are latest_community_percentiles["low"] and ["high"]
CommunityPredictions ==
    { [prediction_histogram |-> << <<0, 0, 3>>, <<5000, 0, 0>> >>,
       community_prediction |-> [low |-> 0, high |-> Unit]],
      [prediction_histogram |->
           << <<0, 0, 0>>, <<2500, 0, 1>>, <<5000, 0, 2>>, <<7500, 0, 1>> >>,
       community_prediction |-> [low |-> 1000, high |-> 8000]] }

\* question JSON of a question nobody has predicted on: no prediction_histogram key
DataWithoutPredictions(possibilities) ==
    [possibilities |-> possibilities,
     has_prediction_histogram |-> FALSE,
     prediction_histogram |-> << >>,
     community_prediction |-> [low |-> 0, high |-> Unit]]

DataWithPredictions(possibilities, cp) ==
    [possibilities |-> possibilities,
     has_prediction_histogram |-> TRUE,
     prediction_histogram |-> cp.prediction_histogram,
     community_prediction |-> cp.community_prediction]

\* r.json() of GET questions/<id>: the question's possibilities with whatever
\* community prediction the server holds at that moment
ServerResponses(possibilities) ==
    {DataWithoutPredictions(possibilities)} \cup
    {DataWithPredictions(possibilities, cp) : cp \in CommunityPredictions}

has_predictions(question_data) == question_data.has_prediction_histogram

----------------------------------------------------------------------------
(* ContinuousQuestion.community_dist_in_range under functools.lru_cache    *)

\* lru_cache keys a method call by its arguments, here (self,); question
\* objects hash by identity
cache_key_shared(self) == "community_dist_in_range"
cache_key(self) == self

\* y2 = [p[2] for p in self.prediction_histogram]
y2(prediction_histogram) ==
    [i \in 1 .. Len(prediction_histogram) |-> prediction_histogram[i][3]]

CacheHit(self) == \E e \in lru_cache : e.key = cache_key(self)

\* the entry a call of self.community_dist_in_range() returns: the cached
\* one on a hit, else a Categorical built from the current histogram
community_dist_in_range(self) ==
    IF CacheHit(self)
    THEN CHOOSE e \in lru_cache : e.key = cache_key(self)
    ELSE [key |-> cache_key(self),
          dist |-> y2(data[self].prediction_histogram),
          built_for |-> self]

\* bucket indices (from 0) a Categorical with these probs can return
Support(dist) == {i \in 0 .. Len(dist) - 1 : dist[i + 1] > 0}

----------------------------------------------------------------------------
(* ContinuousQuestion.sample_normalized_community and sample_community     *)

\* np.random.logistic(loc, outside_range_scale): loc plus a deviation
LogisticDraws(loc) == {loc - 300, loc + 250}

\* ppl.random_choice(options, ps): an option of positive probability
RandomChoice(options, ps) == {options[k] : k \in {j \in 1 .. Len(ps) : ps[j] > 0}}

\* the results the sampler can produce: it raises AttributeError where it
\* reads self.prediction_histogram of data that has none
sample_normalized_community(self) ==
    IF ~data[self].has_prediction_histogram
    THEN {[outcome |-> "AttributeError"]}
    ELSE
        LET entry == community_dist_in_range(self)
            buckets == Len(data[self].prediction_histogram)
            p_below == data[self].community_prediction.low
            p_above == Unit - data[self].community_prediction.high
            p_in_range == Unit - p_below - p_above
        IN  {[outcome |-> "ok",
              entry |-> entry,
              normalized_sample |-> x] :
                x \in UNION {
                    RandomChoice(<<-Abs(l0), (i * Unit) \div buckets, Abs(l1)>>,
                                 <<p_below, p_in_range, p_above>>) :
                        l0 \in LogisticDraws(0),
                        l1 \in LogisticDraws(Unit),
                        i \in Support(entry.dist)}}

WithCalls(r, calls) == [f \in DOMAIN r \cup {"calls"} |->
                            IF f = "calls" THEN calls ELSE r[f]]

\* ContinuousQuestion.sample_community; normalized_sample is the value it
\* hands to denormalize_samples
ContinuousQuestion_sample_community(self) ==
    IF ~has_predictions(data[self])
    THEN {[outcome |-> "ValueError", calls |-> << >>]}
    ELSE {WithCalls(r, <<"sample_normalized_community", "denormalize_samples">>) :
              r \in sample_normalized_community(self)}

\* LinearDateQuestion.sample_community
LinearDateQuestion_sample_community(self) ==
    {WithCalls(r, IF r.outcome = "ok"
                  THEN <<"sample_normalized_community", "denormalize_samples">>
                  ELSE <<"sample_normalized_community">>) :
         r \in sample_normalized_community(self)}

\* method resolution of self.sample_community()
sample_community(self) ==
    IF question_class(self) = "LinearDateQuestion"
    THEN LinearDateQuestion_sample_community(self)
    ELSE ContinuousQuestion_sample_community(self)

----------------------------------------------------------------------------
(* Submission: get_submission, get_submission_from_samples, submit         *)

\* components per fitted mixture
MaxComponents == 2

\* true-scale inputs of a transform: GridSteps points per range width
GridSteps == 4

\* longest vector of samples handed to a transform or to from_samples
MaxSamples == 2

\* most points of a Foretold Cdf
MaxCdfLen == 3

\* largest question id of the question JSONs
MaxQuestionId == 3

\* largest pages argument of get_questions_json
MaxPages == 2

\* what logistic.fit_mixture may return
FitComponents == {[loc |-> 5000, scale |-> 1000], [loc |-> 40000, scale |-> 200000]}

WeightSeqs(n) ==
    IF n = 1 THEN {<<Unit>>}
    ELSE {[i \in 1 .. n |-> IF i = n THEN Unit - (n - 1) * w ELSE w] :
              w \in {1000, 2500}}

Mixtures ==
    UNION {{[components |-> c, probs |-> w] :
                c \in [1 .. n -> FitComponents], w \in WeightSeqs(n)} :
           n \in 1 .. MaxComponents}

SampleTypes == {"Series", "ndarray", "list"}

Reverse(seq) == [i \in 1 .. Len(seq) |-> seq[Len(seq) + 1 - i]]

get_submission_reversed(possibilities, mixture_params) ==
    [components |-> Reverse([i \in 1 .. Len(mixture_params.components) |->
                        get_submission_params(possibilities,
                                              mixture_params.components[i])]),
     probs |-> mixture_params.probs]
get_submission(possibilities, mixture_params) ==
    [components |-> [i \in 1 .. Len(mixture_params.components) |->
                        get_submission_params(possibilities,
                                              mixture_params.components[i])],
     probs |-> mixture_params.probs]

\* float() keeps the value of every field
format_logistic_for_api(submission, weight) ==
    [kind |-> "logistic",
     x0 |-> submission.loc,
     s |-> submission.scale,
     w |-> weight,
     low |-> submission.low,
     high |-> submission.high]

\* prediction_data["prediction"] of submit
prediction(submission) ==
    [kind |-> "multi",
     d |-> [idx \in 1 .. Len(submission.components) |->
               format_logistic_for_api(submission.components[idx],
                                       submission.probs[idx])]]

\* fit is what logistic.fit_mixture returns for the normalized samples
get_submission_from_samples_unchecked(possibilities, samples_type, fit) ==
    [raised |-> "",
     calls |-> <<"normalize_samples", "fit_mixture", "get_submission">>,
     mixture_params |-> fit,
     submission |-> get_submission(possibilities, fit)]
get_submission_from_samples(possibilities, samples_type, fit) ==
    IF samples_type \notin {"Series", "ndarray"}
    THEN [raised |-> "TypeError", calls |-> << >>]
    ELSE [raised |-> "",
          calls |-> <<"normalize_samples", "fit_mixture", "get_submission">>,
          mixture_params |-> fit,
          submission |-> get_submission(possibilities, fit)]

----------------------------------------------------------------------------
(* Spec: calls on loaded question objects                                  *)

NoCall == [op |-> "none"]

PureIdle ==
    /\ transform = None
    /\ cdf = None
    /\ made = None

ParamsIdle ==
    /\ p_possibilities = [low |-> "tail", high |-> "tail"]
    /\ p_logistic_params = [loc |-> 0, scale |-> Unit]
    /\ p_submission = None

\* possibilities of the questions loaded in Spec
LoadedPossibilities(self) ==
    CASE self = "linear_q" -> [low |-> "tail", high |-> "tail"]
      [] self = "log_q" -> [low |-> "min", high |-> "tail"]
      [] self = "date_q" -> [low |-> "tail", high |-> "max"]

\* every question was loaded by get_question from some server response
Init ==
    /\ ParamsIdle
    /\ PureIdle
    /\ data \in {d \in [Questions -> UNION {ServerResponses(p) : p \in Possibilities}] :
                     \A self \in Questions :
                         d[self].possibilities = LoadedPossibilities(self)}
    /\ lru_cache = {}
    /\ last_call = NoCall

\* MetaculusQuestion.refresh_question: self.data = r.json(), where responses
\* are the question JSONs the server may answer with
RefreshQuestionFrom(self, responses) ==
    /\ \E r \in responses :
           data' = [data EXCEPT ![self] = r]
    /\ last_call' = [op |-> "refresh_question", q |-> self, outcome |-> "ok",
                     calls |-> << >>]
    /\ UNCHANGED <<lru_cache, paramVars, pureVars>>

\* refresh_question of a question nobody edits on the server
RefreshQuestion(self) ==
    RefreshQuestionFrom(self, ServerResponses(data[self].possibilities))

\* self.sample_community()
SampleCommunity(self) ==
    /\ \E r \in sample_community(self) :
           /\ last_call' = [f \in DOMAIN r \cup {"op", "q"} |->
                               IF f = "op" THEN "sample_community"
                               ELSE IF f = "q" THEN self ELSE r[f]]
           /\ lru_cache' = IF r.outcome = "ok"
                           THEN lru_cache \cup {r.entry}
                           ELSE lru_cache
    /\ UNCHANGED <<data, paramVars, pureVars>>

SubmitRefreshingAlways(self, fits, responses) ==
    /\ \E samples_type \in SampleTypes, fit \in fits :
         LET r == get_submission_from_samples(data[self].possibilities,
                                              samples_type, fit)
             call == [op |-> "submit_from_samples", q |-> self,
                      samples_type |-> samples_type]
         IN  IF r.raised # ""
             THEN /\ last_call' = call @@ [outcome |-> r.raised,
                                           calls |-> r.calls,
                                           posted |-> << >>]
                  /\ UNCHANGED data
             ELSE LET sent == call @@ [posted |-> <<prediction(r.submission)>>,
                                       mixture_params |-> r.mixture_params,
                                       submission |-> r.submission]
                  IN  /\ \E outcome \in {"HTTPError", "ok"} :
                             last_call' = sent @@
                               [outcome |-> outcome,
                                calls |-> r.calls \o
                                    <<"submit", "post", "refresh_question">>]
                      /\ \E resp \in responses :
                             data' = [data EXCEPT ![self] = resp]
    /\ UNCHANGED <<lru_cache, paramVars, pureVars>>

\* ContinuousQuestion.submit_from_samples: get_submission_from_samples, then
\* submit, which POSTs once and refreshes the question after a successful POST.
\* fits are the mixtures logistic.fit_mixture may return, responses the
\* question JSONs the server may answer the refresh with.
SubmitFromSamplesVia(self, fits, responses) ==
    /\ \E samples_type \in SampleTypes, fit \in fits :
         LET r == get_submission_from_samples(data[self].possibilities,
                                              samples_type, fit)
             call == [op |-> "submit_from_samples", q |-> self,
                      samples_type |-> samples_type]
         IN  IF r.raised # ""
             THEN /\ last_call' = call @@ [outcome |-> r.raised,
                                           calls |-> r.calls,
                                           posted |-> << >>]
                  /\ UNCHANGED data
             ELSE LET sent == call @@ [posted |-> <<prediction(r.submission)>>,
                                       mixture_params |-> r.mixture_params,
                                       submission |-> r.submission]
                  IN  \* self.metaculus.post raises HTTPError
                      \/ /\ last_call' = sent @@
                               [outcome |-> "HTTPError",
                                calls |-> r.calls \o <<"submit", "post">>]
                         /\ UNCHANGED data
                      \* the POST succeeds: self.refresh_question()
                      \/ /\ last_call' = sent @@
                               [outcome |-> "ok",
                                calls |-> r.calls \o
                                    <<"submit", "post", "refresh_question">>]
                         /\ \E resp \in responses :
                                data' = [data EXCEPT ![self] = resp]
    /\ UNCHANGED <<lru_cache, paramVars, pureVars>>

\* submit_from_samples on a question nobody edits on the server
SubmitFromSamples(self, fits) ==
    SubmitFromSamplesVia(self, fits, ServerResponses(data[self].possibilities))

\* the fit of the calls made in Spec
SomeMixtures ==
    {[components |-> <<[loc |-> 5000, scale |-> 1000],
                       [loc |-> 40000, scale |-> 200000]>>,
      probs |-> <<2500, 7500>>]}

Next ==
    \E self \in Questions :
        \/ RefreshQuestion(self)
        \/ SampleCommunity(self)
        \/ SubmitFromSamples(self, SomeMixtures)

Spec == Init /\ [][Next]_vars

----------------------------------------------------------------------------
(* SpecSubmit: the submission path of one question with every bounded fit  *)

InitSubmit ==
    /\ ParamsIdle
    /\ PureIdle
    /\ \E possibilities \in Possibilities :
           data \in [Questions -> ServerResponses(possibilities)]
    /\ \A self \in Questions \ {"linear_q"} : ~has_predictions(data[self])
    /\ lru_cache = {}
    /\ last_call = NoCall

NextSubmit ==
    \/ SubmitFromSamples("linear_q", Mixtures)
    \/ RefreshQuestion("linear_q")

SpecSubmit == InitSubmit /\ [][NextSubmit]_vars

----------------------------------------------------------------------------
(* SpecLifetime: a log question whose definition can be edited on the      *)
(* server between two fetches                                              *)

\* ContinuousQuestion.question_range: self.possibilities["scale"]
question_range(question_data) == question_data.possibilities.scale

\* LogQuestion.deriv_ratio
deriv_ratio(question_data) == question_data.possibilities.scale.deriv_ratio

\* possibilities of the question as get_question loaded it
LoadedLogPossibilities ==
    [low |-> "tail", high |-> "tail",
     scale |-> [min |-> 1, max |-> 100, deriv_ratio |-> 100]]

\* possibilities the server may hold for the same question id later on
ServerPossibilities ==
    [low : {"tail", "min"}, high : {"tail", "max"},
     scale : [min : {1}, max : {100, 1000}, deriv_ratio : {100, 1000}]]

\* r.json() of GET questions/<id> for that question
EditedServerResponses == UNION {ServerResponses(p) : p \in ServerPossibilities}

InitLifetime ==
    /\ ParamsIdle
    /\ PureIdle
    /\ data \in [Questions -> ServerResponses(LoadedLogPossibilities)]
    /\ \A self \in Questions \ {"log_q"} : ~has_predictions(data[self])
    /\ lru_cache = {}
    /\ last_call = NoCall

NextLifetime ==
    \/ RefreshQuestionFrom("log_q", EditedServerResponses)
    \/ SampleCommunity("log_q")
    \/ SubmitFromSamplesVia("log_q", SomeMixtures, EditedServerResponses)

SpecLifetime == InitLifetime /\ [][NextLifetime]_vars

----------------------------------------------------------------------------
(* SpecParams: get_submission_params applied to every bounded input        *)

QuestionsIdle ==
    /\ data = [self \in Questions |->
                  DataWithoutPredictions([low |-> "tail", high |-> "tail"])]
    /\ lru_cache = {}
    /\ last_call = NoCall

InitParams ==
    /\ p_possibilities \in Possibilities
    /\ p_logistic_params \in LogisticParams
    /\ p_submission = None
    /\ QuestionsIdle
    /\ PureIdle

GetSubmissionParams ==
    /\ p_submission = None
    /\ p_submission' = get_submission_params(p_possibilities, p_logistic_params)
    /\ UNCHANGED <<p_possibilities, p_logistic_params, questionVars, pureVars>>

NextParams == GetSubmissionParams

SpecParams == InitParams /\ [][NextParams]_vars

Called == p_submission # None

----------------------------------------------------------------------------
(* Exact arithmetic for the scale transforms.  A float of the program is   *)
(* the rational [num, den] in lowest terms with den > 0; the transforms    *)
(* are modelled by their exact values, without float rounding.             *)

RECURSIVE Gcd(_, _)
Gcd(a, b) == IF b = 0 THEN a ELSE Gcd(b, a % b)

Rat(n, d) ==
    LET g == Gcd(Abs(n), Abs(d))
        s == IF d < 0 THEN -1 ELSE 1
    IN  [num |-> s * (n \div g), den |-> s * (d \div g)]

Whole(n) == [num |-> n, den |-> 1]

RatAdd(p, q) ==
    LET g == Gcd(p.den, q.den)
    IN  Rat(p.num * (q.den \div g) + q.num * (p.den \div g), (p.den \div g) * q.den)

RatNeg(p) == [num |-> -p.num, den |-> p.den]

RatSub(p, q) == RatAdd(p, RatNeg(q))

RatMul(p, q) ==
    LET g1 == Gcd(Abs(p.num), q.den)
        g2 == Gcd(Abs(q.num), p.den)
    IN  [num |-> (p.num \div g1) * (q.num \div g2),
         den |-> (p.den \div g2) * (q.den \div g1)]

\* what numpy and pandas return for p / 0: inf, -inf or nan
NonFinite(p) ==
    [nonfinite |-> IF p.num > 0 THEN "inf" ELSE IF p.num < 0 THEN "-inf" ELSE "nan"]

IsFinite(x) == "num" \in DOMAIN x

\* p / q, elementwise division of an array of floats
RatDiv(p, q) ==
    IF q.num = 0 THEN NonFinite(p)
    ELSE RatMul(p, IF q.num < 0 THEN [num |-> -q.den, den |-> -q.num]
                                ELSE [num |-> q.den, den |-> q.num])

\* a/b < c/d for b, d > 0, by integer parts and then the reciprocals of the
\* fractional parts, so that no product is formed
RECURSIVE FracLess(_, _, _, _)
FracLess(a, b, c, d) ==
    IF a \div b # c \div d THEN a \div b < c \div d
    ELSE IF c % d = 0 THEN FALSE
    ELSE IF a % b = 0 THEN TRUE
    ELSE FracLess(d, c % d, b, a % b)

RatLess(p, q) == FracLess(p.num, p.den, q.num, q.den)

RatLeq(p, q) == ~RatLess(q, p)

RatMax(p, q) == IF RatLess(p, q) THEN q ELSE p

RatAbs(p) == [num |-> Abs(p.num), den |-> p.den]

\* Python's round(): to the nearest integer, a tie to the even one
Round(p) ==
    LET fl == p.num \div p.den
        twice == 2 * (p.num % p.den)
    IN  IF twice < p.den THEN fl
        ELSE IF twice > p.den THEN fl + 1
        ELSE IF fl % 2 = 0 THEN fl ELSE fl + 1

\* r ** k for an integer k >= 0
RECURSIVE RatPow(_, _)
RatPow(r, k) == IF k = 0 THEN Whole(1) ELSE RatMul(r, RatPow(r, k - 1))

----------------------------------------------------------------------------
(* Dates: datetime.date as [year, month, day]; a "%Y-%m-%d" string of the  *)
(* question JSON as the record [Y, m, d] of its three numbers.             *)

IsLeap(y) == (y % 4 = 0 /\ y % 100 # 0) \/ y % 400 = 0

DaysInMonth(y, m) ==
    IF m = 2 THEN (IF IsLeap(y) THEN 29 ELSE 28)
    ELSE IF m \in {4, 6, 9, 11} THEN 30 ELSE 31

DaysInYear(y) == IF IsLeap(y) THEN 366 ELSE 365

\* days of year y before the first of month m
RECURSIVE DaysBeforeMonth(_, _)
DaysBeforeMonth(y, m) ==
    IF m = 1 THEN 0 ELSE DaysBeforeMonth(y, m - 1) + DaysInMonth(y, m - 1)

\* days from 2019-01-01 to the first of January of year y >= 2019
RECURSIVE DaysBeforeYear(_)
DaysBeforeYear(y) ==
    IF y = 2019 THEN 0 ELSE DaysBeforeYear(y - 1) + DaysInYear(y - 1)

\* date.toordinal, counted from 2019-01-01 = 1
toordinal(d) == DaysBeforeYear(d.year) + DaysBeforeMonth(d.year, d.month) + d.day

RECURSIVE MonthAndDay(_, _, _)
MonthAndDay(y, m, n) ==
    IF n <= DaysInMonth(y, m) THEN [year |-> y, month |-> m, day |-> n]
    ELSE MonthAndDay(y, m + 1, n - DaysInMonth(y, m))

RECURSIVE YearAndDay(_, _)
YearAndDay(y, n) ==
    IF n <= DaysInYear(y) THEN MonthAndDay(y, 1, n)
    ELSE YearAndDay(y + 1, n - DaysInYear(y))

\* date.fromordinal for n >= 1
fromordinal(n) == YearAndDay(2019, n)

\* datetime.strptime(s, "%Y-%m-%d").date()
strptime(s) == [year |-> s.Y, month |-> s.m, day |-> s.d]

\* the string "Y-m-d"
DateString(Y, m, d) == [Y |-> Y, m |-> m, d |-> d]

\* (d1 - d2).days
days_between(d1, d2) == toordinal(d1) - toordinal(d2)

\* d + timedelta(days = n)
plus_days(d, n) == fromordinal(toordinal(d) + n)

IsDate(x) == "year" \in DOMAIN x

----------------------------------------------------------------------------
(* The scale transforms of LinearQuestion, LogQuestion, LinearDateQuestion *)

\* a question object as far as the transforms read it
TransformQuestion(class, scale) ==
    [class |-> class, possibilities |-> [scale |-> scale]]

\* LinearDateQuestion.question_range
LinearDateQuestion_question_range(self) ==
    LET date_min == strptime(self.possibilities.scale.min)
        date_max == strptime(self.possibilities.scale.max)
    IN  [min |-> Whole(0), max |-> Whole(1),
         date_min |-> date_min, date_max |-> date_max,
         date_range |-> days_between(date_max, date_min)]

\* self.question_range as the class of self resolves it
range_of(self) ==
    IF self.class = "LinearDateQuestion" THEN LinearDateQuestion_question_range(self)
    ELSE question_range(self)

\* ContinuousQuestion.question_range_width
question_range_width(self) == RatSub(range_of(self).max, range_of(self).min)

LinearQuestion_normalize_from_max(self, samples) ==
    [i \in DOMAIN samples |->
        RatDiv(RatSub(range_of(self).max, samples[i]), question_range_width(self))]

\* LinearQuestion.normalize_samples
LinearQuestion_normalize_samples(self, samples) ==
    [i \in DOMAIN samples |->
        RatDiv(RatSub(samples[i], range_of(self).min), question_range_width(self))]

LinearQuestion_denormalize_from_max(self, samples) ==
    [i \in DOMAIN samples |->
        RatAdd(range_of(self).min, RatMul(range_of(self).max, samples[i]))]

\* LinearQuestion.denormalize_samples
LinearQuestion_denormalize_samples(self, samples) ==
    [i \in DOMAIN samples |->
        RatAdd(range_of(self).min, RatMul(question_range_width(self), samples[i]))]

\* the 1e-9 of max(timber, 1e-9)
timber_floor == Rat(1, 10 ^ 9)

\* math.log(x, base) for x > 0: exactly 0 at 1 and exactly 1 at the base, any
\* other logarithm is kept as the term log_base(x)
Log(x, base) ==
    IF x = Whole(1) THEN Whole(0)
    ELSE IF x = base THEN Whole(1)
    ELSE [log |-> x, base |-> base]

\* base ** y for y a logarithm to that base or a natural number
Pow(base, y) ==
    IF "log" \in DOMAIN y THEN y.log ELSE RatPow(base, y.num)

\* timber of LogQuestion.normalized_from_true_value
timber(self, true_value) ==
    LET shifted == RatSub(true_value, question_range(self).min)
        numerator == RatMul(shifted, RatSub(deriv_ratio(self), Whole(1)))
        scaled == RatDiv(numerator, question_range_width(self))
    IN  RatAdd(Whole(1), scaled)

normalized_from_unfloored_timber(self, true_value) ==
    Log(timber(self, true_value), deriv_ratio(self))

\* LogQuestion.normalized_from_true_value
normalized_from_true_value(self, true_value) ==
    LET floored_timber == RatMax(timber(self, true_value), timber_floor)
    IN  Log(floored_timber, deriv_ratio(self))

\* LogQuestion.true_from_normalized_value
true_from_normalized_value(self, normalized_value) ==
    LET deriv_term == RatDiv(RatSub(Pow(deriv_ratio(self), normalized_value), Whole(1)),
                             RatSub(deriv_ratio(self), Whole(1)))
        scaled == RatMul(question_range_width(self), deriv_term)
    IN  RatAdd(question_range(self).min, scaled)

\* LogQuestion.normalize_samples
LogQuestion_normalize_samples(self, samples) ==
    [i \in DOMAIN samples |-> normalized_from_true_value(self, samples[i])]

\* LogQuestion.denormalize_samples
LogQuestion_denormalize_samples(self, samples) ==
    [i \in DOMAIN samples |-> true_from_normalized_value(self, samples[i])]

normalize_dates_from_max(self, dates) ==
    [i \in DOMAIN dates |->
        RatDiv(Whole(days_between(range_of(self).date_max, dates[i])),
               Whole(range_of(self).date_range))]

\* LinearDateQuestion.normalize_dates
normalize_dates(self, dates) ==
    [i \in DOMAIN dates |->
        RatDiv(Whole(days_between(dates[i], range_of(self).date_min)),
               Whole(range_of(self).date_range))]

\* LinearDateQuestion.normalize_samples
LinearDateQuestion_normalize_samples(self, samples) ==
    IF IsDate(samples[1]) THEN normalize_dates(self, samples)
    ELSE LinearQuestion_normalize_samples(self, samples)

\* denorm of LinearDateQuestion.denormalize_samples
denorm(self, sample) ==
    plus_days(range_of(self).date_min,
              Round(RatMul(Whole(range_of(self).date_range), sample)))

\* LinearDateQuestion.denormalize_samples when type(samples) == float
LinearDateQuestion_denormalize_float(self, sample) == denorm(self, sample)

\* LinearDateQuestion.denormalize_samples of a vector: pd.Series(samples).apply(denorm)
LinearDateQuestion_denormalize_samples(self, samples) ==
    [i \in DOMAIN samples |-> denorm(self, samples[i])]

\* self.normalize_samples(samples)
normalize_samples(self, samples) ==
    CASE self.class = "LinearQuestion" -> LinearQuestion_normalize_samples(self, samples)
      [] self.class = "LogQuestion" -> LogQuestion_normalize_samples(self, samples)
      [] self.class = "LinearDateQuestion" -> LinearDateQuestion_normalize_samples(self, samples)

\* self.denormalize_samples(samples)
denormalize_samples(self, samples) ==
    CASE self.class = "LinearQuestion" -> LinearQuestion_denormalize_samples(self, samples)
      [] self.class = "LogQuestion" -> LogQuestion_denormalize_samples(self, samples)
      [] self.class = "LinearDateQuestion" -> LinearDateQuestion_denormalize_samples(self, samples)

----------------------------------------------------------------------------
(* SpecTransform: the scale transforms applied to bounded inputs           *)

LinearQuestions ==
    {TransformQuestion("LinearQuestion", [min |-> Whole(r[1]), max |-> Whole(r[2])]) :
        r \in {<<0, 100>>, <<-5, 15>>, <<3, 4>>}}

\* deriv_ratio above and below 1
LogQuestions ==
    {TransformQuestion("LogQuestion",
                       [min |-> Whole(r[1]), max |-> Whole(r[2]), deriv_ratio |-> r[3]]) :
        r \in {<<0, 100, Whole(10)>>, <<0, 100, Rat(1, 10)>>,
               <<1, 1000, Whole(100)>>, <<1, 10, Rat(1, 2)>>}}

\* 2^31 - 1, the largest integer of the model's arithmetic
LargestInt == 2 ^ 30 + (2 ^ 30 - 1)

\* a positive deriv_ratio below the floor of 1e-9
TinyRatio == Rat(1, LargestInt)

TinyRatioQuestion ==
    TransformQuestion("LogQuestion",
                      [min |-> Whole(0), max |-> Whole(1), deriv_ratio |-> TinyRatio])

LinearDateQuestions ==
    {TransformQuestion("LinearDateQuestion", [min |-> r[1], max |-> r[2]]) :
        r \in {<<DateString(2020, 1, 1), DateString(2020, 1, 11)>>,
               <<DateString(2020, 2, 20), DateString(2020, 3, 5)>>,
               <<DateString(2019, 12, 25), DateString(2020, 1, 4)>>}}

TransformQuestions ==
    LinearQuestions \cup LogQuestions \cup {TinyRatioQuestion} \cup LinearDateQuestions

\* true-scale values a caller passes: from one range width below min to one
\* above max; for the tiny ratio the values whose products stay within 32 bits
Grid(self) ==
    IF self = TinyRatioQuestion
    THEN {Whole(0), Rat(1, 2), Rat(LargestInt - 2, LargestInt - 1), Whole(1)}
    ELSE IF self.class = "LinearDateQuestion"
    THEN {plus_days(range_of(self).date_min, k) : k \in -2 .. range_of(self).date_range + 2}
    ELSE {RatAdd(range_of(self).min,
                 RatMul(question_range_width(self), Rat(k, GridSteps))) :
            k \in -GridSteps .. 2 * GridSteps}

SamplesOf(self) == UNION {[1 .. n -> Grid(self)] : n \in 1 .. MaxSamples}

InRange(self, x) ==
    IF IsDate(x)
    THEN /\ days_between(x, range_of(self).date_min) >= 0
         /\ days_between(range_of(self).date_max, x) >= 0
    ELSE RatLeq(range_of(self).min, x) /\ RatLeq(x, range_of(self).max)

\* the 1e-9 floor of normalized_from_true_value replaces the timber of x
FloorActive(self, x) ==
    self.class = "LogQuestion" /\ RatLess(timber(self, x), timber_floor)

\* values a caller sends through normalize and back: those of the range.  (The
\* image of the floor has a denominator near 10^9, and min + width * image
\* leaves the model's integers, so floored values are normalized only.)
RoundTripSamplesOf(self) ==
    UNION {[1 .. n -> {x \in Grid(self) : InRange(self, x) /\ ~FloorActive(self, x)}] :
              n \in 1 .. MaxSamples}

\* normalized values a caller passes as one float
NormalizedGrid == {Rat(k, 2 * GridSteps) : k \in 0 .. 2 * GridSteps} \cup {Rat(1, 2)}

Loaded(self) == [op |-> "loaded", q |-> self]

InitTransform ==
    /\ ParamsIdle
    /\ cdf = None
    /\ made = None
    /\ QuestionsIdle
    /\ transform \in {Loaded(self) : self \in TransformQuestions}

\* question.normalize_samples(samples)
NormalizeSamples ==
    /\ transform.op = "loaded"
    /\ \E samples \in SamplesOf(transform.q) :
           transform' = [op |-> "normalize_samples", q |-> transform.q,
                         samples |-> samples,
                         result |-> normalize_samples(transform.q, samples)]
    /\ UNCHANGED <<paramVars, questionVars, cdf, made>>

\* question.denormalize_samples(question.normalize_samples(samples))
RoundTrip ==
    /\ transform.op = "loaded"
    /\ \E samples \in RoundTripSamplesOf(transform.q) :
           transform' = [op |-> "round_trip", q |-> transform.q, samples |-> samples,
                         normalized |-> normalize_samples(transform.q, samples),
                         result |-> denormalize_samples(transform.q,
                                        normalize_samples(transform.q, samples))]
    /\ UNCHANGED <<paramVars, questionVars, cdf, made>>

\* date_question.denormalize_samples(y) for one float y
DenormalizeFloat ==
    /\ transform.op = "loaded"
    /\ transform.q.class = "LinearDateQuestion"
    /\ \E y \in NormalizedGrid :
           transform' = [op |-> "denormalize_float", q |-> transform.q, samples |-> y,
                         result |-> LinearDateQuestion_denormalize_float(transform.q, y)]
    /\ UNCHANGED <<paramVars, questionVars, cdf, made>>

NextTransform ==
    \/ NormalizeSamples
    \/ RoundTrip
    \/ DenormalizeFloat

SpecTransform == InitTransform /\ [][NextTransform]_vars

----------------------------------------------------------------------------
(* SpecCdf: Foretold Cdfs (src/ergo/foretold.py).  xs and ys are sequences *)
(* of rationals; the code's 0-based index i is position i + 1.             *)

At(seq, i) == seq[i + 1]

Ascending(seq) == \A k \in 1 .. Len(seq) - 1 : RatLeq(seq[k], seq[k + 1])

\* the index of the last True instead of the first
argmax_last(bools) ==
    IF \E k \in DOMAIN bools : bools[k]
    THEN (CHOOSE k \in DOMAIN bools : bools[k] /\ \A j \in k + 1 .. Len(bools) : ~bools[j]) - 1
    ELSE 0

\* np.argmax(bools): the 0-based index of the first True, 0 when there is none
argmax(bools) ==
    IF \E k \in DOMAIN bools : bools[k]
    THEN (CHOOSE k \in DOMAIN bools : bools[k] /\ \A j \in 1 .. k - 1 : ~bools[j]) - 1
    ELSE 0

sample_community_swapped_weights(floatCdf, y) ==
    LET xs == floatCdf.xs
        ys == floatCdf.ys
        i == argmax([k \in DOMAIN ys |-> RatLess(y, ys[k])])
    IN  IF i = 0 THEN At(xs, 0)
        ELSE LET w == RatDiv(RatSub(y, At(ys, i - 1)), RatSub(At(ys, i), At(ys, i - 1)))
             IN  RatAdd(RatMul(At(xs, i - 1), w),
                        RatMul(At(xs, i), RatSub(Whole(1), w)))

\* ForetoldQuestion.sample_community, y being the draw of uniform()
ForetoldQuestion_sample_community(floatCdf, y) ==
    LET xs == floatCdf.xs
        ys == floatCdf.ys
        i == argmax([k \in DOMAIN ys |-> RatLess(y, ys[k])])
    IN  IF i = 0 THEN At(xs, 0)
        ELSE LET x0 == At(xs, i - 1)
                 x1 == At(xs, i)
                 y0 == At(ys, i - 1)
                 y1 == At(ys, i)
                 w == RatDiv(RatSub(y, y0), RatSub(y1, y0))
             IN  \* a weight of inf, -inf or nan makes the sum nan for xs >= 0
                 IF ~IsFinite(w) THEN [nonfinite |-> "nan"]
                 ELSE RatAdd(RatMul(x1, w), RatMul(x0, RatSub(Whole(1), w)))

\* np.linspace(start, stop, num)
linspace(start, stop, num) ==
    [k \in 1 .. num |->
        IF num = 1 THEN start
        ELSE RatAdd(start, RatMul(RatSub(stop, start), Rat(k - 1, num - 1)))]

SeqMin(seq) == CHOOSE x \in {seq[k] : k \in DOMAIN seq} :
                   \A k \in DOMAIN seq : RatLeq(x, seq[k])

SeqMax(seq) == CHOOSE x \in {seq[k] : k \in DOMAIN seq} :
                   \A k \in DOMAIN seq : RatLeq(seq[k], x)

from_samples_one_more(samples, length) ==
    LET xs == linspace(SeqMin(samples), SeqMax(samples), length + 1)
    IN  [xs |-> xs,
         ys |-> [k \in DOMAIN xs |->
                    Rat(Cardinality({j \in DOMAIN samples : RatLeq(samples[j], xs[k])}),
                        Len(samples))]]

\* ForetoldCdf.from_samples(samples, length): evenly spaced xs spanning the
\* sample range, ys the fraction of the samples at or below each x
from_samples(samples, length) ==
    LET xs == linspace(SeqMin(samples), SeqMax(samples), length)
    IN  [xs |-> xs,
         ys |-> [k \in DOMAIN xs |->
                    Rat(Cardinality({j \in DOMAIN samples : RatLeq(samples[j], xs[k])}),
                        Len(samples))]]

CdfXs == {Whole(k) : k \in 0 .. 3}

CdfYs == {Rat(k, 5) : k \in 0 .. 5}

\* the floatCdf of a previousAggregate: xs ascending, ys ascending in [0, 1]
FloatCdfs ==
    UNION {{[xs |-> xs, ys |-> ys] :
               xs \in {s \in [1 .. n -> CdfXs] : Ascending(s)},
               ys \in {s \in [1 .. n -> CdfYs] : Ascending(s)}} :
           n \in 1 .. MaxCdfLen}

\* values of uniform(): draws from [0, 1)
UniformDraws == {Rat(k, 10) : k \in 0 .. 9}

FlatSamples ==
    UNION {[1 .. n -> {Whole(0), Whole(1), Rat(5, 2), Whole(4)}] : n \in 1 .. MaxSamples}

NoCdf == [op |-> "none"]

InitCdf ==
    /\ ParamsIdle
    /\ QuestionsIdle
    /\ transform = None
    /\ made = None
    /\ cdf \in {NoCdf} \cup {[op |-> "refresh_question", floatCdf |-> c] : c \in FloatCdfs}

\* ForetoldQuestion.sample_community on a question that holds a floatCdf
ForetoldSampleCommunity ==
    /\ cdf.op = "refresh_question"
    /\ \E y \in UniformDraws :
           cdf' = [op |-> "sample_community", floatCdf |-> cdf.floatCdf, y |-> y,
                   i |-> argmax([k \in DOMAIN cdf.floatCdf.ys |->
                                    RatLess(y, cdf.floatCdf.ys[k])]),
                   result |-> ForetoldQuestion_sample_community(cdf.floatCdf, y)]
    /\ UNCHANGED <<paramVars, questionVars, transform, made>>

\* ForetoldCdf.from_samples(samples, length)
FromSamples ==
    /\ cdf = NoCdf
    /\ \E samples \in FlatSamples : \E length \in 1 .. MaxCdfLen :
           cdf' = [op |-> "from_samples", samples |-> samples, length |-> length,
                   made |-> from_samples(samples, length)]
    /\ UNCHANGED <<paramVars, questionVars, transform, made>>

NextCdf == ForetoldSampleCommunity \/ FromSamples

SpecCdf == InitCdf /\ [][NextCdf]_vars

----------------------------------------------------------------------------
(* SpecMake: Metaculus.make_question_from_data on bounded question JSONs   *)

\* data["possibilities"].get("format")
get_format(possibilities) ==
    IF "format" \in DOMAIN possibilities THEN possibilities.format ELSE "None"

\* the question object a constructor call returns: __init__ stores id and
\* data, and __getattr__ serves possibilities out of data
QuestionObject(class, question_data) ==
    [class |-> class, id |-> question_data.id, possibilities |-> question_data.possibilities]

Returns(question) == [raises |-> "None", question |-> question]

Raises(error) == [raises |-> error, question |-> None]

make_question_from_data_date_first(question_data) ==
    IF question_data.possibilities.type = "binary"
    THEN Returns(QuestionObject("BinaryQuestion", question_data))
    ELSE IF question_data.possibilities.type = "continuous"
    THEN IF get_format(question_data.possibilities) = "date"
         THEN Returns(QuestionObject("LinearDateQuestion", question_data))
         ELSE IF question_data.possibilities.scale.deriv_ratio # Whole(1)
         THEN Returns(QuestionObject("LogQuestion", question_data))
         ELSE Returns(QuestionObject("LinearQuestion", question_data))
    ELSE Raises("NotImplementedError")

\* Metaculus.make_question_from_data
make_question_from_data(question_data) ==
    IF question_data.possibilities.type = "binary"
    THEN Returns(QuestionObject("BinaryQuestion", question_data))
    ELSE IF question_data.possibilities.type = "continuous"
    THEN IF question_data.possibilities.scale.deriv_ratio # Whole(1)
         THEN IF get_format(question_data.possibilities) = "date"
              THEN Raises("NotImplementedError")
              ELSE Returns(QuestionObject("LogQuestion", question_data))
         ELSE IF get_format(question_data.possibilities) = "date"
         THEN Returns(QuestionObject("LinearDateQuestion", question_data))
         ELSE Returns(QuestionObject("LinearQuestion", question_data))
    ELSE Raises("NotImplementedError")

NumberScales ==
    [min : {Whole(0), Whole(5)}, max : {Whole(5), Whole(100)},
     deriv_ratio : {Whole(1), Whole(10), Rat(1, 10)}]

DateScales ==
    [min : {DateString(2020, 1, 1), DateString(2020, 1, 11)},
     max : {DateString(2020, 1, 11)},
     deriv_ratio : {Whole(1), Whole(10)}]

\* data["possibilities"] of the question JSONs the API may return
ApiPossibilities ==
    {[type |-> "binary"], [type |-> "discussion"]}
        \cup [type : {"continuous"}, scale : NumberScales]
        \cup [type : {"continuous"}, scale : NumberScales, format : {"num"}]
        \cup [type : {"continuous"}, scale : DateScales, format : {"date"}]

ApiData == [id : 1 .. MaxQuestionId, possibilities : ApiPossibilities]

InitMake ==
    /\ ParamsIdle
    /\ QuestionsIdle
    /\ transform = None
    /\ cdf = None
    /\ made \in {[op |-> "fetched", data |-> d] : d \in ApiData}

\* Metaculus.make_question_from_data(data)
MakeQuestionFromData ==
    /\ made.op = "fetched"
    /\ made' = [op |-> "make_question_from_data", data |-> made.data,
                outcome |-> make_question_from_data(made.data)]
    /\ UNCHANGED <<paramVars, questionVars, transform, cdf>>

\* true-scale values handed to the question that was made
MadeSamples(self) ==
    IF self.class = "LinearDateQuestion" THEN Grid(self)
    ELSE Grid(self) \cup {RatAdd(range_of(self).min, Whole(1))}

\* question.normalize_samples([x]) on the linear or date question just made
NormalizeMade ==
    /\ made.op = "make_question_from_data"
    /\ made.outcome.raises = "None"
    /\ made.outcome.question.class \in {"LinearQuestion", "LinearDateQuestion"}
    /\ \E x \in MadeSamples(made.outcome.question) :
           made' = [op |-> "normalize_samples", q |-> made.outcome.question,
                    samples |-> <<x>>,
                    result |-> normalize_samples(made.outcome.question, <<x>>)]
    /\ UNCHANGED <<paramVars, questionVars, transform, cdf>>

NextMake == MakeQuestionFromData \/ NormalizeMade

SpecMake == InitMake /\ [][NextMake]_vars

----------------------------------------------------------------------------
(* SpecSampler: sample_normalized_community of one question, with every    *)
(* intermediate value of the call kept                                     *)

\* sample_below_range, l being the draw of np.random.logistic(0, outside_range_scale)
sample_below_range(l) == -Abs(l)

\* sample_above_range, l being the draw of np.random.logistic(1, outside_range_scale)
sample_above_range(l) == Abs(l)

\* sample_in_range, i being the bucket ppl.sample drew
sample_in_range(i, question_data) ==
    (i * Unit) \div Len(question_data.prediction_histogram)

p_below(question_data) == question_data.community_prediction.low

p_above_is_high(question_data) == question_data.community_prediction.high

p_above(question_data) == Unit - question_data.community_prediction.high

p_in_range(question_data) == Unit - p_below(question_data) - p_above(question_data)

\* ppl.random_choice(options, ps): the position of an option of positive
\* probability
RandomChoiceIndex(ps) == {j \in 1 .. Len(ps) : ps[j] > 0}

\* ContinuousQuestion.sample_normalized_community: every run of the call
sample_normalized_community_runs(self) ==
    IF ~data[self].has_prediction_histogram
    THEN {[outcome |-> "AttributeError"]}
    ELSE
        LET entry == community_dist_in_range(self)
        IN  {LET options == <<sample_below_range(l0),
                              sample_in_range(i, data[self]),
                              sample_above_range(l1)>>
             IN  [outcome |-> "ok",
                  entry |-> entry,
                  bucket |-> i,
                  options |-> options,
                  ps |-> <<p_below(data[self]), p_in_range(data[self]),
                           p_above(data[self])>>,
                  choice |-> j,
                  normalized_sample |-> options[j]] :
                l0 \in LogisticDraws(0),
                l1 \in LogisticDraws(Unit),
                i \in Support(entry.dist),
                j \in RandomChoiceIndex(<<p_below(data[self]), p_in_range(data[self]),
                                          p_above(data[self])>>)}

\* histograms and percentiles the server may hold for the sampled question
SamplerPredictions ==
    { [prediction_histogram |-> << <<0, 0, Unit>>, <<5000, 0, 0>> >>,
       community_prediction |-> [low |-> 0, high |-> Unit]],
      [prediction_histogram |->
           << <<0, 0, 0>>, <<2500, 0, 1>>, <<5000, 0, 2>>, <<7500, 0, 1>> >>,
       community_prediction |-> [low |-> 1000, high |-> 8000]],
      [prediction_histogram |-> << <<0, 0, Unit>>, <<3333, 0, Unit>>, <<6667, 0, 0>> >>,
       community_prediction |-> [low |-> 0, high |-> 9000]],
      [prediction_histogram |-> << <<0, 0, 5>>, <<5000, 0, 5>> >>,
       community_prediction |-> [low |-> 2000, high |-> Unit]] }

SamplerResponses ==
    {DataWithoutPredictions([low |-> "tail", high |-> "tail"])} \cup
    {DataWithPredictions([low |-> "tail", high |-> "tail"], cp) :
        cp \in SamplerPredictions}

InitSampler ==
    /\ ParamsIdle
    /\ PureIdle
    /\ data \in [Questions -> SamplerResponses]
    /\ \A self \in Questions \ {"linear_q"} : ~has_predictions(data[self])
    /\ lru_cache = {}
    /\ last_call = NoCall

\* self.sample_normalized_community()
SampleNormalizedCommunity(self) ==
    /\ \E r \in sample_normalized_community_runs(self) :
           /\ last_call' = [f \in DOMAIN r \cup {"op", "q"} |->
                               IF f = "op" THEN "sample_normalized_community"
                               ELSE IF f = "q" THEN self ELSE r[f]]
           /\ lru_cache' = IF r.outcome = "ok"
                           THEN lru_cache \cup {r.entry}
                           ELSE lru_cache
    /\ UNCHANGED <<data, paramVars, pureVars>>

NextSampler ==
    \/ SampleNormalizedCommunity("linear_q")
    \/ RefreshQuestionFrom("linear_q", SamplerResponses)

SpecSampler == InitSampler /\ [][NextSampler]_vars

----------------------------------------------------------------------------
(* SpecPages: Metaculus.get_questions_json over the pages of a listing     *)

\* r.json() of a page past the end of the listing
InvalidPage == [detail |-> "Invalid page."]

ListedQuestion(id, type) == [id |-> id, possibilities |-> [type |-> type]]

\* what the server may answer for one page: results, or an HTTP error whose
\* body is not the sentinel
PageAnswers ==
    { [results |-> <<ListedQuestion(1, "continuous")>>],
      [results |-> <<ListedQuestion(2, "discussion"), ListedQuestion(3, "binary")>>],
      [detail |-> "Server error."] }

\* the pages the server holds for a query, one longer than any pages argument
Listings == UNION {[1 .. n -> PageAnswers] : n \in 0 .. MaxPages + 1}

\* self.s.get(f"{self.api_url}/questions/?{query_string}&page={current_page}").json()
s_get(listing, current_page) ==
    IF current_page \in DOMAIN listing THEN listing[current_page] ELSE InvalidPage

RECURSIVE get_questions_for_pages_stopping_early(_, _, _, _)
get_questions_for_pages_stopping_early(listing, max_pages, current_page, results) ==
    IF current_page >= max_pages
    THEN [outcome |-> "ok", returned |-> results, requested |-> <<>>]
    ELSE LET r == s_get(listing, current_page)
         IN  IF r = InvalidPage
             THEN [outcome |-> "ok", returned |-> results,
                   requested |-> <<current_page>>]
             ELSE IF "results" \notin DOMAIN r
             THEN [outcome |-> "HTTPError", requested |-> <<current_page>>]
             ELSE LET rest == get_questions_for_pages_stopping_early(
                                  listing, max_pages, current_page + 1,
                                  results \o r.results)
                  IN  [rest EXCEPT !.requested = <<current_page>> \o @]

\* get_questions_for_pages(query_string, max_pages, current_page, results),
\* listing being what the server holds for query_string; requested lists the
\* pages asked for
RECURSIVE get_questions_for_pages(_, _, _, _)
get_questions_for_pages(listing, max_pages, current_page, results) ==
    IF current_page > max_pages
    THEN [outcome |-> "ok", returned |-> results, requested |-> <<>>]
    ELSE LET r == s_get(listing, current_page)
         IN  IF r = InvalidPage
             THEN [outcome |-> "ok", returned |-> results,
                   requested |-> <<current_page>>]
             ELSE IF "results" \notin DOMAIN r
             THEN [outcome |-> "HTTPError", requested |-> <<current_page>>]
             ELSE LET rest == get_questions_for_pages(
                                  listing, max_pages, current_page + 1,
                                  results \o r.results)
                  IN  [rest EXCEPT !.requested = <<current_page>> \o @]

NotDiscussion(q) == q.possibilities.type # "discussion"

\* Metaculus.get_questions_json(pages=pages,
\*     include_discussion_questions=include_discussion_questions)
get_questions_json(listing, pages, include_discussion_questions) ==
    LET fetched == get_questions_for_pages(listing, pages, 1, <<>>)
    IN  IF fetched.outcome # "ok" THEN fetched
        ELSE [outcome |-> "ok", requested |-> fetched.requested,
              returned |-> fetched.returned,
              questions |-> IF ~include_discussion_questions
                            THEN SelectSeq(fetched.returned, NotDiscussion)
                            ELSE fetched.returned]

NoListingCall == [op |-> "none", call |-> 0, returned |-> <<>>]

InitPages ==
    /\ ParamsIdle
    /\ QuestionsIdle
    /\ transform = None
    /\ cdf = None
    /\ made = NoListingCall

\* metaculus.get_questions_json(...), the first and the second call on one
\* Metaculus object; earlier is what the page retrieval of the call before
\* returned
GetQuestionsJson ==
    /\ made.call < 2
    /\ \E listing \in Listings : \E pages \in 0 .. MaxPages :
       \E include_discussion_questions \in BOOLEAN :
           LET call == get_questions_json(listing, pages, include_discussion_questions)
           IN  made' = [op |-> "get_questions_json",
                        call |-> made.call + 1,
                        listing |-> listing,
                        pages |-> pages,
                        include_discussion_questions |-> include_discussion_questions,
                        earlier |-> made.returned,
                        outcome |-> call.outcome,
                        requested |-> call.requested,
                        returned |-> IF call.outcome = "ok" THEN call.returned ELSE <<>>,
                        questions |-> IF call.outcome = "ok" THEN call.questions ELSE <<>>]
    /\ UNCHANGED <<paramVars, questionVars, transform, cdf>>

NextPages == GetQuestionsJson

SpecPages == InitPages /\ [][NextPages]_vars

----------------------------------------------------------------------------
(* SpecForetold: ForetoldQuestion.refresh_question over GraphQL responses  *)

ChannelIds == {[channel |-> c] : c \in {"channel-a", "channel-b", "channel-c"}}

ForetoldCdfs ==
    { [xs |-> <<Whole(0), Whole(1), Whole(2)>>, ys |-> <<Rat(1, 5), Rat(3, 5), Whole(1)>>],
      [xs |-> <<Whole(1), Whole(3)>>, ys |-> <<Whole(0), Whole(1)>>] }

\* previousAggregate of a measurable: with its floatCdf, without a floatCdf,
\* without a value, or null
Aggregates ==
    {[value |-> [floatCdf |-> c]] : c \in ForetoldCdfs} \cup
    {[value |-> [dataType |-> "floatCdf"]], [id |-> "aggregate"], None}

\* response.json() of the GraphQL query
ForetoldResponses ==
    {[data |-> [measurable |-> [id |-> "m", channelId |-> c, previousAggregate |-> a]]] :
        c \in ChannelIds, a \in Aggregates} \cup
    {[data |-> [measurable |-> [id |-> "m", channelId |-> c]]] : c \in ChannelIds} \cup
    {[data |-> [measurable |-> [id |-> "m", previousAggregate |-> a]]] :
        a \in Aggregates} \cup
    {[data |-> [measurable |-> None]],
     [data |-> [measurables |-> "none"]],
     [errors |-> "Bad request"]}

\* obj[path[1]][path[2]]...: the value, or the exception of the first
\* subscript that fails
RECURSIVE Subscript(_, _)
Subscript(obj, path) ==
    IF path = <<>> THEN [value |-> obj]
    ELSE IF obj = None THEN [raises |-> "TypeError"]
    ELSE IF path[1] \notin DOMAIN obj THEN [raises |-> "KeyError"]
    ELSE Subscript(obj[path[1]], Tail(path))

\* except KeyError: raise ValueError(...); any other exception leaves as it is
Reraised(exception) == IF exception = "KeyError" THEN "ValueError" ELSE exception

\* ForetoldQuestion.refresh_question, self holding channelId and floatCdf
ForetoldQuestion_refresh_question(self, response_json) ==
    LET measurable == Subscript(response_json, <<"data", "measurable">>)
    IN  IF "raises" \in DOMAIN measurable
        THEN [outcome |-> Reraised(measurable.raises),
              channelId |-> self.channelId, floatCdf |-> self.floatCdf]
        ELSE
        LET channelId == Subscript(measurable.value, <<"channelId">>)
        IN  IF "raises" \in DOMAIN channelId
            THEN [outcome |-> Reraised(channelId.raises),
                  channelId |-> self.channelId, floatCdf |-> self.floatCdf]
            ELSE
            LET floatCdf == Subscript(measurable.value,
                                      <<"previousAggregate", "value", "floatCdf">>)
            IN  IF "raises" \in DOMAIN floatCdf
                THEN [outcome |-> Reraised(floatCdf.raises),
                      channelId |-> channelId.value, floatCdf |-> self.floatCdf]
                ELSE [outcome |-> "ok",
                      channelId |-> channelId.value, floatCdf |-> floatCdf.value]

\* ForetoldQuestion(id)
InitForetold ==
    /\ ParamsIdle
    /\ QuestionsIdle
    /\ transform = None
    /\ made = None
    /\ cdf = [op |-> "__init__", channelId |-> None, floatCdf |-> None]

\* question.refresh_question()
ForetoldRefreshQuestion ==
    /\ \E response_json \in ForetoldResponses :
           LET r == ForetoldQuestion_refresh_question(cdf, response_json)
           IN  cdf' = [op |-> "refresh_question", response_json |-> response_json,
                       outcome |-> r.outcome, channelId |-> r.channelId,
                       floatCdf |-> r.floatCdf]
    /\ UNCHANGED <<paramVars, questionVars, transform, made>>

NextForetold == ForetoldRefreshQuestion

SpecForetold == InitForetold /\ [][NextForetold]_vars

----------------------------------------------------------------------------
\* C1: the returned scale lies in [0.01, 10] and the returned loc is
\* min(input loc, 3): at most 3 and never raised.
C1_ScaleLocClipped ==
    Called =>
        /\ min_scale <= p_submission.scale
        /\ p_submission.scale <= max_scale
        /\ p_submission.loc <= max_loc
        /\ p_submission.loc <= p_logistic_params.loc
        /\ p_submission.loc = Min(p_logistic_params.loc, max_loc)

\* a loc above 3 and a scale above 10 were both clipped
C1_Witness ==
    /\ Called
    /\ p_logistic_params.loc > max_loc
    /\ p_logistic_params.scale > max_scale
    /\ p_submission.loc = max_loc
    /\ p_submission.scale = max_scale

\* C2: with both tails open the returned high is at least low + 0.01.
C2_MinGapBothOpen ==
    (Called /\ low_open(p_possibilities) /\ high_open(p_possibilities)) =>
        p_submission.high >= p_submission.low + min_high_gap

\* both tails open and the gap is what decides high: CDF(1) capped at 0.99
\* lies below low + 0.01
C2_Witness ==
    /\ Called
    /\ low_open(p_possibilities)
    /\ high_open(p_possibilities)
    /\ Min(distribution_cdf(p_logistic_params, Unit), max_open_high)
         < p_submission.low + min_high_gap
    /\ p_submission.high = p_submission.low + min_high_gap

\* C3: every returned low and high lies in [0, 1].
C3_LowHighInUnitInterval ==
    Called =>
        /\ 0 <= p_submission.low
        /\ p_submission.low <= Unit
        /\ 0 <= p_submission.high
        /\ p_submission.high <= Unit

\* C4: with an open tail, low and high are taken from the CDF of the
\* clipped logistic, the one whose loc and scale are returned.
C4_BoundsFromClippedCdf ==
    Called =>
        /\ low_open(p_possibilities) =>
              p_submission.low =
                  Max(LogisticCdf(p_submission.loc, p_submission.scale, 0),
                      min_open_low)
        /\ high_open(p_possibilities) =>
              p_submission.high =
                  Max(Min(LogisticCdf(p_submission.loc, p_submission.scale, Unit),
                          max_open_high),
                      p_submission.low + min_high_gap)

\* C5: a closed low tail gives low = 0, a closed high tail gives high = 1,
\* and low <= high in every output.
C5_ClosedTailsFixed ==
    Called =>
        /\ ~low_open(p_possibilities) => p_submission.low = 0
        /\ ~high_open(p_possibilities) => p_submission.high = Unit
        /\ p_submission.low <= p_submission.high

\* both tails closed although the fitted logistic has mass below 0 and above 1
C5_Witness ==
    /\ Called
    /\ ~low_open(p_possibilities)
    /\ ~high_open(p_possibilities)
    /\ distribution_cdf(p_logistic_params, 0) > min_open_low
    /\ distribution_cdf(p_logistic_params, Unit) < max_open_high
    /\ p_submission.low = 0
    /\ p_submission.high = Unit

----------------------------------------------------------------------------
(* Claims about the submission path (SpecSubmit)                           *)

Submitted == last_call.op = "submit_from_samples"
Posted == Submitted /\ last_call.posted # << >>

\* C6: a mixture of n components is submitted as n clipped components in
\* the same order with the weights unchanged, and entry i of the payload
\* list d carries component i with weight i.
C6_ComponentsAndWeightsKept ==
    Posted =>
        LET mp == last_call.mixture_params
            sub == last_call.submission
            d == last_call.posted[1].d
            n == Len(mp.components)
        IN  /\ Len(sub.components) = n
            /\ sub.probs = mp.probs
            /\ Len(d) = n
            /\ \A i \in 1 .. n :
                  /\ sub.components[i] =
                         get_submission_params(data[last_call.q].possibilities,
                                               mp.components[i])
                  /\ d[i].x0 = sub.components[i].loc
                  /\ d[i].s = sub.components[i].scale
                  /\ d[i].low = sub.components[i].low
                  /\ d[i].high = sub.components[i].high
                  /\ d[i].w = mp.probs[i]

\* a mixture of two different components with different weights was posted
C6_Witness ==
    /\ Posted
    /\ last_call.outcome = "ok"
    /\ Len(last_call.mixture_params.components) = 2
    /\ last_call.mixture_params.components[1] # last_call.mixture_params.components[2]
    /\ last_call.mixture_params.probs[1] # last_call.mixture_params.probs[2]
    /\ last_call.posted[1].d[2].w = last_call.mixture_params.probs[2]

\* C7: samples that are neither a pandas Series nor a numpy ndarray raise
\* TypeError before normalize_samples, the fit, the clipping or a POST.
C7_TypeErrorBeforeAnyWork ==
    (Submitted /\ last_call.samples_type \notin {"Series", "ndarray"}) =>
        /\ last_call.outcome = "TypeError"
        /\ last_call.calls = << >>
        /\ last_call.posted = << >>

\* a list of samples was submitted and rejected
C7_Witness ==
    /\ Submitted
    /\ last_call.samples_type = "list"
    /\ last_call.outcome = "TypeError"

----------------------------------------------------------------------------
(* Claims about sampling the community prediction (Spec)                   *)

Sampled == last_call.op = "sample_community"

\* C8: for every question kind, sample_community on a question without a
\* prediction_histogram raises the no-predictions ValueError before the
\* community sampler is invoked.
C8_NoPredictionsBeforeSampler ==
    (Sampled /\ ~has_predictions(data[last_call.q])) =>
        /\ last_call.outcome = "ValueError"
        /\ last_call.calls = << >>

\* C9: the bucket distribution a sample is drawn from is the one built from
\* the question's current prediction_histogram.
C9_DistFromCurrentHistogram ==
    (Sampled /\ last_call.outcome = "ok") =>
        last_call.entry.dist = y2(data[last_call.q].prediction_histogram)

\* C10: the cache holds at most one distribution per question object, and
\* the distribution a question samples from was computed for that question.
C10_CachePerQuestion ==
    /\ \A self \in Questions :
           Cardinality({e \in lru_cache : e.built_for = self}) <= 1
    /\ Cardinality(lru_cache) <= Cardinality(Questions)
    /\ (Sampled /\ last_call.outcome = "ok") => last_call.entry.built_for = last_call.q

\* a question sampled from its own distribution while the cache also holds a
\* different distribution of another question
C10_Witness ==
    /\ Sampled
    /\ last_call.outcome = "ok"
    /\ last_call.entry.built_for = last_call.q
    /\ \E e \in lru_cache :
           /\ e.built_for # last_call.q
           /\ e.dist # last_call.entry.dist

----------------------------------------------------------------------------
(* Claims about the lifetime of a question (SpecLifetime)                  *)

SameDefinition(self) ==
    /\ question_range(data'[self]) = question_range(data[self])
    /\ deriv_ratio(data'[self]) = deriv_ratio(data[self])
    /\ low_open(data'[self].possibilities) = low_open(data[self].possibilities)
    /\ high_open(data'[self].possibilities) = high_open(data[self].possibilities)

\* C11: no operation on a loaded question changes what question_range,
\* deriv_ratio, low_open and high_open return.
C11_DefinitionFixed == [][\A self \in Questions : SameDefinition(self)]_vars

----------------------------------------------------------------------------
(* Claims about the scale transforms (SpecTransform)                       *)

Normalized == transform.op = "normalize_samples"

WentRoundTrip == transform.op = "round_trip"

\* a < b on the true scale: numbers, or dates
TrueLess(a, b) ==
    IF IsDate(a) THEN toordinal(a) < toordinal(b) ELSE RatLess(a, b)

StrictlyInside(self, x) ==
    TrueLess(range_of(self).min, x) /\ TrueLess(x, range_of(self).max)

\* the x with base ** x = y, for y a value normalized_from_true_value returns
LogArg(y, base) == IF "log" \in DOMAIN y THEN y.log ELSE RatPow(base, y.num)

\* ya < yb on the normalized scale of self
NormLess(self, ya, yb) ==
    IF self.class = "LogQuestion"
    THEN LET r == deriv_ratio(self)
         IN  IF RatLess(Whole(1), r)
             THEN RatLess(LogArg(ya, r), LogArg(yb, r))
             ELSE RatLess(LogArg(yb, r), LogArg(ya, r))
    ELSE RatLess(ya, yb)

\* C12: for a LinearQuestion with max > min and x strictly inside the range,
\* denormalize_samples(normalize_samples(x)) equals x.
C12_LinearRoundTrip ==
    (WentRoundTrip /\ transform.q.class = "LinearQuestion") =>
        \A i \in DOMAIN transform.samples :
            StrictlyInside(transform.q, transform.samples[i]) =>
                transform.result[i] = transform.samples[i]

C12_Witness ==
    /\ WentRoundTrip
    /\ transform.q.class = "LinearQuestion"
    /\ question_range(transform.q).min = Whole(-5)
    /\ transform.samples = <<Whole(0)>>
    /\ transform.normalized = <<Rat(1, 4)>>
    /\ transform.result = <<Whole(0)>>

RoundTripTolerance == Rat(1, 10 ^ 6)

\* C13: for a LogQuestion with max > min, deriv_ratio > 0 and # 1, and x
\* strictly inside the range, the 1e-9 floor is not active at x and
\* true_from_normalized_value(normalized_from_true_value(x)) is within 1e-6
\* of x.
C13_LogRoundTrip ==
    ((Normalized \/ WentRoundTrip) /\ transform.q.class = "LogQuestion") =>
        \A i \in DOMAIN transform.samples :
            StrictlyInside(transform.q, transform.samples[i]) =>
                /\ ~FloorActive(transform.q, transform.samples[i])
                /\ WentRoundTrip =>
                      RatLeq(RatAbs(RatSub(transform.result[i], transform.samples[i])),
                             RoundTripTolerance)

Jan2020Question ==
    TransformQuestion("LinearDateQuestion",
                      [min |-> DateString(2020, 1, 1), max |-> DateString(2020, 1, 11)])

Jan6 == strptime(DateString(2020, 1, 6))

\* C14: for a LinearDateQuestion with day_span > 0 and a date d with
\* date_min <= d <= date_max, denormalize_samples(normalize_samples(d)) is d;
\* with date_min = 2020-01-01 and day_span = 10, normalize(2020-01-06) is 0.5
\* and denormalize(0.5) is 2020-01-06.
C14_DateRoundTrip ==
    /\ (WentRoundTrip /\ transform.q.class = "LinearDateQuestion") =>
           \A i \in DOMAIN transform.samples :
               InRange(transform.q, transform.samples[i]) =>
                   transform.result[i] = transform.samples[i]
    /\ (Normalized /\ transform.q = Jan2020Question /\ transform.samples = <<Jan6>>) =>
           transform.result = <<Rat(1, 2)>>
    /\ (transform.op = "denormalize_float" /\ transform.q = Jan2020Question
            /\ transform.samples = Rat(1, 2)) =>
           transform.result = Jan6

C14_Witness ==
    /\ WentRoundTrip
    /\ transform.q.class = "LinearDateQuestion"
    /\ range_of(transform.q).date_range = 14
    /\ transform.samples = <<strptime(DateString(2020, 3, 1))>>
    /\ transform.normalized = <<Rat(5, 7)>>
    /\ transform.result = transform.samples

\* C15 as stated: for any two inputs a < b of any scale kind,
\* normalize(a) < normalize(b), also where the 1e-9 floor applies.
C15_NormalizeStrictlyIncreasing ==
    Normalized =>
        \A i, j \in DOMAIN transform.samples :
            TrueLess(transform.samples[i], transform.samples[j]) =>
                NormLess(transform.q, transform.result[i], transform.result[j])

\* 1 + scaled <= 1e-9: normalized_from_true_value returns log(1e-9)
AtFloor(self, x) ==
    self.class = "LogQuestion" /\ RatLeq(timber(self, x), timber_floor)

\* C15 as amended: for any two inputs a < b of any scale kind,
\* normalize(a) <= normalize(b), and normalize(a) < normalize(b) unless the
\* floor applies to both.
C15_NormalizeIncreasing ==
    Normalized =>
        \A i, j \in DOMAIN transform.samples :
            TrueLess(transform.samples[i], transform.samples[j]) =>
                /\ ~NormLess(transform.q, transform.result[j], transform.result[i])
                /\ ~(AtFloor(transform.q, transform.samples[i])
                        /\ AtFloor(transform.q, transform.samples[j])) =>
                      NormLess(transform.q, transform.result[i], transform.result[j])

C15_Witness ==
    /\ Normalized
    /\ transform.q.class = "LogQuestion"
    /\ deriv_ratio(transform.q) = Rat(1, 10)
    /\ Len(transform.samples) = 2
    /\ StrictlyInside(transform.q, transform.samples[1])
    /\ TrueLess(transform.samples[1], transform.samples[2])
    /\ AtFloor(transform.q, transform.samples[2])
    /\ NormLess(transform.q, transform.result[1], transform.result[2])

\* C16: for every deriv_ratio > 0 other than 1, the logarithmic
\* normalize(min) is 0 and normalize(max) is 1.
C16_LogEndpoints ==
    (Normalized /\ transform.q.class = "LogQuestion") =>
        \A i \in DOMAIN transform.samples :
            /\ transform.samples[i] = question_range(transform.q).min =>
                   transform.result[i] = Whole(0)
            /\ transform.samples[i] = question_range(transform.q).max =>
                   transform.result[i] = Whole(1)

----------------------------------------------------------------------------
(* Claims about Foretold Cdfs (SpecCdf)                                    *)

CdfSampled == cdf.op = "sample_community"

Between(x, a, b) == RatLeq(a, x) /\ RatLeq(x, b)

ExampleCdf ==
    [xs |-> <<Whole(0), Whole(1), Whole(2)>>, ys |-> <<Rat(1, 5), Rat(3, 5), Whole(1)>>]

\* C17: on a Cdf with ascending ys, sample_community takes the smallest
\* index i with ys[i] > u; for i > 0 it returns the point of the segment from
\* (xs[i-1], ys[i-1]) to (xs[i], ys[i]) at height u, which lies between
\* xs[i-1] and xs[i]; the result is always within [xs[0], xs[last]]; for
\* xs = [0,1,2], ys = [0.2,0.6,1.0], u = 0.1 gives 0, u = 0.4 a value strictly
\* between 0 and 1, u = 0.8 a value strictly between 1 and 2.
C17_InverseCdfInterpolates ==
    CdfSampled =>
        LET xs == cdf.floatCdf.xs
            ys == cdf.floatCdf.ys
            u == cdf.y
            i == cdf.i
        IN  /\ (\E k \in DOMAIN ys : RatLess(u, ys[k])) =>
                   /\ RatLess(u, At(ys, i))
                   /\ \A j \in 0 .. i - 1 : ~RatLess(u, At(ys, j))
            /\ i > 0 =>
                   /\ RatMul(RatSub(cdf.result, At(xs, i - 1)),
                             RatSub(At(ys, i), At(ys, i - 1)))
                        = RatMul(RatSub(At(xs, i), At(xs, i - 1)),
                                 RatSub(u, At(ys, i - 1)))
                   /\ Between(cdf.result, At(xs, i - 1), At(xs, i))
            /\ Between(cdf.result, At(xs, 0), At(xs, Len(xs) - 1))
            /\ (cdf.floatCdf = ExampleCdf /\ u = Rat(1, 10)) => cdf.result = Whole(0)
            /\ (cdf.floatCdf = ExampleCdf /\ u = Rat(2, 5)) =>
                   RatLess(Whole(0), cdf.result) /\ RatLess(cdf.result, Whole(1))
            /\ (cdf.floatCdf = ExampleCdf /\ u = Rat(4, 5)) =>
                   RatLess(Whole(1), cdf.result) /\ RatLess(cdf.result, Whole(2))

C17_Witness ==
    /\ CdfSampled
    /\ cdf.floatCdf = ExampleCdf
    /\ cdf.y = Rat(7, 10)
    /\ cdf.i = 2
    /\ cdf.result = Rat(5, 4)

\* C18: a Cdf built from a flat collection of samples with requested length
\* n has n xs and n ys, all floats, xs ascending, ys ascending within [0, 1].
C18_FromSamplesShape ==
    cdf.op = "from_samples" =>
        /\ Len(cdf.made.xs) = cdf.length
        /\ Len(cdf.made.ys) = cdf.length
        /\ \A k \in DOMAIN cdf.made.xs : DOMAIN cdf.made.xs[k] = {"num", "den"}
        /\ \A k \in DOMAIN cdf.made.ys : DOMAIN cdf.made.ys[k] = {"num", "den"}
        /\ Ascending(cdf.made.xs)
        /\ Ascending(cdf.made.ys)
        /\ \A k \in DOMAIN cdf.made.ys : Between(cdf.made.ys[k], Whole(0), Whole(1))

C18_Witness ==
    /\ cdf.op = "from_samples"
    /\ cdf.samples = <<Whole(4), Whole(0)>>
    /\ cdf.length = 3
    /\ cdf.made.xs = <<Whole(0), Whole(2), Whole(4)>>
    /\ cdf.made.ys = <<Rat(1, 2), Rat(1, 2), Whole(1)>>

----------------------------------------------------------------------------
(* Claims about making questions (SpecMake)                                *)

Made == made.op = "make_question_from_data"

MadeClass(class) ==
    made.outcome.raises = "None" /\ made.outcome.question.class = class

\* C19: make_question_from_data gives a BinaryQuestion for type binary; for
\* type continuous with deriv_ratio # 1 it raises for format date and gives a
\* LogQuestion otherwise; for type continuous with deriv_ratio = 1 it gives
\* a LinearDateQuestion for format date and a LinearQuestion otherwise; for
\* any other type it raises.
C19_VariantFromScaleMetadata ==
    Made =>
        LET possibilities == made.data.possibilities
            continuous == possibilities.type = "continuous"
            is_date == "format" \in DOMAIN possibilities /\ possibilities.format = "date"
            ratio_is_one == possibilities.scale.deriv_ratio = Whole(1)
        IN  /\ possibilities.type = "binary" => MadeClass("BinaryQuestion")
            /\ (continuous /\ ~ratio_is_one /\ is_date) =>
                   made.outcome = Raises("NotImplementedError")
            /\ (continuous /\ ~ratio_is_one /\ ~is_date) => MadeClass("LogQuestion")
            /\ (continuous /\ ratio_is_one /\ is_date) => MadeClass("LinearDateQuestion")
            /\ (continuous /\ ratio_is_one /\ ~is_date) => MadeClass("LinearQuestion")
            /\ possibilities.type \notin {"binary", "continuous"} =>
                   made.outcome.raises # "None"

C19_Witness ==
    /\ Made
    /\ made.data.possibilities.type = "continuous"
    /\ get_format(made.data.possibilities) = "date"
    /\ made.data.possibilities.scale.deriv_ratio = Whole(10)
    /\ made.outcome = Raises("NotImplementedError")

\* max = min, or day_span = 0
DegenerateRange(possibilities) ==
    possibilities.type = "continuous" /\ possibilities.scale.max = possibilities.scale.min

\* C20: a question whose range has max = min (or day_span = 0) is refused
\* with an error when it is made, and no later normalize call yields NaN or
\* Inf.
C20_DegenerateRejected ==
    /\ (Made /\ DegenerateRange(made.data.possibilities)) => made.outcome.raises # "None"
    /\ made.op = "normalize_samples" =>
           \A i \in DOMAIN made.result : IsFinite(made.result[i])

----------------------------------------------------------------------------
(* Claims about errors of the submission path (SpecSubmit)                 *)

CountOf(seq, x) == Cardinality({k \in DOMAIN seq : seq[k] = x})

PostFailed == Posted /\ last_call.outcome = "HTTPError"

\* C21: a call of submit makes exactly one POST; when the POST fails with an
\* HTTP error the error reaches the caller, no second POST is made and the
\* question's data stays as before the call; after a successful POST the
\* question is refreshed before submit returns.
C21_OnePostNoRetry ==
    /\ [](Posted =>
            /\ Len(last_call.posted) = 1
            /\ CountOf(last_call.calls, "post") = 1
            /\ last_call.outcome \in {"HTTPError", "ok"}
            /\ last_call.outcome = "HTTPError" =>
                   last_call.calls[Len(last_call.calls)] = "post"
            /\ last_call.outcome = "ok" =>
                   /\ last_call.calls[Len(last_call.calls) - 1] = "post"
                   /\ last_call.calls[Len(last_call.calls)] = "refresh_question")
    /\ [][PostFailed' => data' = data]_vars

C21_Witness ==
    /\ PostFailed
    /\ has_predictions(data[last_call.q])

----------------------------------------------------------------------------
(* Claims about sample_normalized_community (SpecSampler)                  *)

SampledNormalized ==
    last_call.op = "sample_normalized_community" /\ last_call.outcome = "ok"

\* C22: the below-range candidate is always <= 0 and the above-range
\* candidate always >= 1, whatever the logistic draws are.
C22_OutsideCandidatesOutside ==
    SampledNormalized =>
        /\ last_call.options[1] <= 0
        /\ last_call.options[3] >= Unit

\* C23: the result is one of the three candidates, the one a single
\* categorical draw picks with the weights (p_below, 1 - p_below - p_above,
\* p_above), p_below being the low and p_above 1 - the high community
\* percentile; the weights are non-negative and sum to 1 when
\* p_below + p_above <= 1, and a candidate of weight 0 is never returned.
C23_OneWeightedChoice ==
    SampledNormalized =>
        LET percentiles == data[last_call.q].community_prediction
            weights == <<percentiles.low, percentiles.high - percentiles.low,
                         Unit - percentiles.high>>
        IN  /\ last_call.ps = weights
            /\ last_call.choice \in 1 .. 3
            /\ last_call.normalized_sample = last_call.options[last_call.choice]
            /\ weights[1] + weights[3] <= Unit =>
                   /\ \A k \in 1 .. 3 : weights[k] >= 0
                   /\ weights[1] + weights[2] + weights[3] = Unit
            /\ weights[last_call.choice] > 0
            /\ (weights[1] = 0 /\ weights[3] = 0) =>
                   last_call.normalized_sample = last_call.options[2]

C23_Witness ==
    /\ SampledNormalized
    /\ last_call.ps = <<0, 9000, 1000>>
    /\ last_call.choice = 3
    /\ last_call.normalized_sample = last_call.options[3]

ExampleHistogram == << <<0, 0, Unit>>, <<5000, 0, 0>> >>

\* C24: the in-range candidate is i / bucket_count for a bucket i of the
\* current histogram with positive density, so it lies in [0, 1); for the
\* two-bucket histogram with densities (1.0, 0.0) and p_below = p_above = 0
\* the result is 0.
C24_InRangeFromCurrentBuckets ==
    SampledNormalized =>
        LET histogram == data[last_call.q].prediction_histogram
        IN  /\ \E i \in 0 .. Len(histogram) - 1 :
                   /\ histogram[i + 1][3] > 0
                   /\ last_call.bucket = i
                   /\ last_call.options[2] = (i * Unit) \div Len(histogram)
            /\ 0 <= last_call.options[2]
            /\ last_call.options[2] < Unit
            /\ (histogram = ExampleHistogram /\ last_call.ps = <<0, Unit, 0>>) =>
                   last_call.normalized_sample = 0

----------------------------------------------------------------------------
(* Claims about the edges of Cdf sampling (SpecCdf)                        *)

\* C25: the i == 0 branch, which returns xs[0], is taken only when the draw
\* u is below ys[0]; a draw at or above every ys is not mapped to xs[0].
C25_FirstBinOnlyBelowFirstY ==
    (CdfSampled /\ cdf.i = 0) => RatLess(cdf.y, At(cdf.floatCdf.ys, 0))

FlatSegment(ys, i) == i > 0 /\ At(ys, i) = At(ys, i - 1)

\* C26: sampling never divides by zero: the interpolation weight is computed
\* only over a segment with ys[i] - ys[i-1] # 0, the result is a finite
\* number, and were the segment flat the result would be xs[i-1].
C26_NoDivisionByZero ==
    CdfSampled =>
        LET xs == cdf.floatCdf.xs
            ys == cdf.floatCdf.ys
        IN  /\ IsFinite(cdf.result)
            /\ cdf.i > 0 => RatSub(At(ys, cdf.i), At(ys, cdf.i - 1)) # Whole(0)
            /\ FlatSegment(ys, cdf.i) => cdf.result = At(xs, cdf.i - 1)

C26_Witness ==
    /\ CdfSampled
    /\ cdf.floatCdf.ys = <<Rat(1, 5), Rat(1, 5), Whole(1)>>
    /\ cdf.floatCdf.xs = <<Whole(0), Whole(1), Whole(3)>>
    /\ cdf.y = Rat(1, 5)
    /\ cdf.i = 2
    /\ cdf.result = Whole(1)

----------------------------------------------------------------------------
(* Claims about the floor of the logarithmic transform (SpecTransform)     *)

\* 1 + (x - min) * (r - 1) / (max - min)
OnePlusScaled(self, x) ==
    LET scale == self.possibilities.scale
    IN  RatAdd(Whole(1), RatDiv(RatMul(RatSub(x, scale.min),
                                       RatSub(scale.deriv_ratio, Whole(1))),
                                RatSub(scale.max, scale.min)))

\* C27: normalized_from_true_value takes the logarithm of
\* max(1 + (x - min)(r - 1)/(max - min), 1e-9), which is at least 1e-9 and so
\* never non-positive; for every x with 1 + scaled <= 1e-9 it returns
\* log_r(1e-9).
C27_LogOfFlooredTimber ==
    (Normalized /\ transform.q.class = "LogQuestion") =>
        \A i \in DOMAIN transform.samples :
            LET r == transform.q.possibilities.scale.deriv_ratio
                unfloored == OnePlusScaled(transform.q, transform.samples[i])
                arg == LogArg(transform.result[i], r)
            IN  /\ RatLeq(Rat(1, 10 ^ 9), arg)
                /\ RatLess(Whole(0), arg)
                /\ arg = IF RatLess(unfloored, Rat(1, 10 ^ 9))
                         THEN Rat(1, 10 ^ 9) ELSE unfloored
                /\ RatLeq(unfloored, Rat(1, 10 ^ 9)) =>
                       transform.result[i] = [log |-> Rat(1, 10 ^ 9), base |-> r]

C27_Witness ==
    /\ Normalized
    /\ transform.q.class = "LogQuestion"
    /\ transform.q.possibilities.scale.deriv_ratio = Whole(10)
    /\ transform.samples = <<Whole(-100), Whole(50)>>
    /\ transform.result[1] = [log |-> Rat(1, 10 ^ 9), base |-> Whole(10)]
    /\ transform.result[2] = [log |-> Rat(11, 2), base |-> Whole(10)]

----------------------------------------------------------------------------
(* Claims about page retrieval (SpecPages)                                 *)

Listed == made.op = "get_questions_json"

\* the pages of the listing that hold results, up to the first that does not
Answered(listing) ==
    {p \in DOMAIN listing : \A j \in 1 .. p : "results" \in DOMAIN listing[j]}

\* C28: for pages = n the call asks for pages 1, 2, ... in order, at most n
\* of them, and stops at the first page answered with the sentinel; it
\* returns the results of the pages it fetched in this call, concatenated in
\* page order (less the discussion questions when those are not asked for),
\* and nothing an earlier call fetched.
C28_PagesInOrderBounded ==
    Listed =>
        LET n == made.pages
            listing == made.listing
            full == Cardinality(Answered(listing))
            last == IF full < n THEN full + 1 ELSE n
            fetched == IF full < n THEN full ELSE n
            cat[j \in 0 .. fetched] ==
                IF j = 0 THEN <<>> ELSE cat[j - 1] \o listing[j].results
        IN  /\ Len(made.requested) <= n
            /\ made.requested = [p \in 1 .. last |-> p]
            /\ made.outcome = "ok" =>
                   /\ made.returned = cat[fetched]
                   /\ made.questions =
                          IF made.include_discussion_questions THEN cat[fetched]
                          ELSE SelectSeq(cat[fetched], NotDiscussion)
            /\ made.outcome = "ok" <=>
                   (full >= n \/ full = Len(listing))

C28_Witness ==
    /\ Listed
    /\ made.call = 2
    /\ made.earlier = <<ListedQuestion(2, "discussion"), ListedQuestion(3, "binary")>>
    /\ made.pages = 2
    /\ Len(made.listing) = 3
    /\ made.requested = <<1, 2>>
    /\ made.returned = <<ListedQuestion(1, "continuous"), ListedQuestion(1, "continuous")>>

----------------------------------------------------------------------------
(* Claims about loading a Foretold question (SpecForetold)                 *)

\* C29: refresh_question is all-or-nothing: a call that fails raises
\* ValueError and leaves channelId and floatCdf as they were before the call,
\* and a call that succeeds replaces both from the same response.
C29_RefreshAllOrNothing ==
    [][(cdf'.op = "refresh_question" /\ cdf' # cdf) =>
          IF cdf'.outcome = "ok"
          THEN /\ cdf'.channelId = cdf'.response_json.data.measurable.channelId
               /\ cdf'.floatCdf =
                      cdf'.response_json.data.measurable.previousAggregate.value.floatCdf
          ELSE /\ cdf'.outcome = "ValueError"
               /\ cdf'.channelId = cdf.channelId
               /\ cdf'.floatCdf = cdf.floatCdf]_vars

====
